---------------------------- MODULE Spec2Model ----------------------------
(***************************************************************************)
(* Model of the Layoutable / LayoutItem layout kernel                      *)
(* (bokehjs core/layout/layoutable.ts).                                    *)
(*                                                                         *)
(* State: one element's private fields _sizing and _bbox, plus a record    *)
(* of the most recent call and what it returned (or threw).                *)
(*                                                                         *)
(* JavaScript numbers are modelled as exact rationals extended with        *)
(* Infinity, -Infinity and NaN, so that width / aspect, height * aspect    *)
(* and Infinity - Infinity behave as they do in the source.                *)
(***************************************************************************)
EXTENDS Integers, FiniteSets, Sequences, TLC

VARIABLES sizing, bbox, last

vars == <<sizing, bbox, last>>

----------------------------------------------------------------------------
(* Bounds of the explored input space.                                     *)

\* configure-once specifications: clamps and viewport sides range over 0..MaxDim,
\* explicit sizes and measured viewports reach MaxDim + 1
MaxDim == 1

\* call sequences: the finite viewport side is ProtoDim, the explicit size ProtoDim + 1
ProtoDim == 1

----------------------------------------------------------------------------
(* JavaScript values: null/undefined, thrown errors, numbers.              *)

\* null and undefined (every test in the source is `!= null` or `||`)
Null == [null |-> TRUE]

\* a thrown exception, propagated to the caller
Throw(msg) == [error |-> msg]

IsThrow(r) == "error" \in DOMAIN r

\* reading a property of an undefined _sizing
TypeError == Throw("TypeError")

RECURSIVE Gcd(_, _)
Gcd(a, b) == IF b = 0 THEN a ELSE Gcd(b, a % b)

IntAbs(i) == IF i < 0 THEN -i ELSE i

\* the rational n/d (d > 0) in lowest terms
Rat(n, d) ==
    LET g == Gcd(IntAbs(n), d)
    IN  [n |-> n \div g, d |-> d \div g]

Num(i) == [n |-> i, d |-> 1]

Infinity == [n |-> 1, d |-> 0]

NegInfinity == [n |-> -1, d |-> 0]

NaN == [n |-> 0, d |-> 0]

IsNaN(x) == x.n = 0 /\ x.d = 0

IsFinite(x) == x.d > 0

\* a < b ; false when either side is NaN
Lt(a, b) ==
    /\ ~IsNaN(a)
    /\ ~IsNaN(b)
    /\ IF a.d = 0 /\ b.d = 0 THEN a.n < b.n ELSE a.n * b.d < b.n * a.d

\* a == b ; NaN equals nothing
NumEq(a, b) == ~IsNaN(a) /\ ~IsNaN(b) /\ a = b

\* a <= b
Le(a, b) == Lt(a, b) \/ NumEq(a, b)

Neg(a) == [n |-> -a.n, d |-> a.d]

Add(a, b) ==
    IF IsNaN(a) \/ IsNaN(b) THEN NaN
    ELSE IF a.d = 0 /\ b.d = 0 THEN (IF a.n = b.n THEN a ELSE NaN)
    ELSE IF a.d = 0 THEN a
    ELSE IF b.d = 0 THEN b
    ELSE Rat(a.n * b.d + b.n * a.d, a.d * b.d)

Sub(a, b) == Add(a, Neg(b))

Sign(i) == IF i < 0 THEN -1 ELSE IF i = 0 THEN 0 ELSE 1

Mul(a, b) ==
    IF IsNaN(a) \/ IsNaN(b) THEN NaN
    ELSE IF a.d = 0 \/ b.d = 0 THEN [n |-> Sign(a.n) * Sign(b.n), d |-> 0]
    ELSE Rat(a.n * b.n, a.d * b.d)

\* 1/b : 1/0 = Infinity, 1/Infinity = 0 (the sign of zero is not tracked)
Inv(b) ==
    IF IsNaN(b) THEN NaN
    ELSE IF b.d = 0 THEN Num(0)
    ELSE IF b.n = 0 THEN Infinity
    ELSE Rat(Sign(b.n) * b.d, IntAbs(b.n))

Div(a, b) ==
    IF IsNaN(a) \/ IsNaN(b) THEN NaN
    ELSE IF a.d = 0 /\ b.d = 0 THEN NaN
    ELSE IF a.n = 0 /\ b.n = 0 THEN NaN
    ELSE Mul(a, Inv(b))

\* Math.abs
Abs(a) == [n |-> IntAbs(a.n), d |-> a.d]

\* Math.min
min(a, b) == IF IsNaN(a) \/ IsNaN(b) THEN NaN ELSE IF Lt(b, a) THEN b ELSE a

\* Math.max
max(a, b) == IF IsNaN(a) \/ IsNaN(b) THEN NaN ELSE IF Lt(a, b) THEN b ELSE a

Zero == Num(0)


----------------------------------------------------------------------------
(* Value types.                                                            *)

\* type Size = {width, height}
Size(w, h) == [width |-> w, height |-> h]

\* type Margin = {left, top, right, bottom}
Margin(l, t, r, b) == [left |-> l, top |-> t, right |-> r, bottom |-> b]

\* type SizingPolicy
SizingPolicy == {"fixed", "fit", "min", "max"}

\* an absent policy (undefined; the source tests it with ||)
Undefined == "undefined"

\* new BBox({left, top, width, height})
BBox(l, t, w, h) == [left |-> l, top |-> t, width |-> w, height |-> h]

\* new BBox({left, top, right, bottom})
BBoxEdges(l, t, r, b) == [left |-> l, top |-> t, width |-> Sub(r, l), height |-> Sub(b, t)]

\* protected _bbox: BBox = new BBox({left: 0, top: 0, width: 0, height: 0})
ZeroBBox == BBox(Zero, Zero, Zero, Zero)

----------------------------------------------------------------------------
(* Layoutable: the methods, as functions of the element's fields.          *)

\* a faulty set_sizing: a field absent from the argument keeps its configured value
set_sizing_Merges(p) ==
    LET old(f, default) == IF sizing # Null THEN sizing[f] ELSE default
    IN
    [ width_policy  |-> IF p.width_policy # Undefined THEN p.width_policy
                        ELSE old("width_policy", "fit"),
      min_width     |-> IF p.min_width # Null THEN p.min_width ELSE old("min_width", Zero),
      width         |-> IF p.width # Null THEN p.width ELSE old("width", Null),
      max_width     |-> IF p.max_width # Null THEN p.max_width
                        ELSE old("max_width", Infinity),
      height_policy |-> IF p.height_policy # Undefined THEN p.height_policy
                        ELSE old("height_policy", "fit"),
      min_height    |-> IF p.min_height # Null THEN p.min_height ELSE old("min_height", Zero),
      height        |-> IF p.height # Null THEN p.height ELSE old("height", Null),
      max_height    |-> IF p.max_height # Null THEN p.max_height
                        ELSE old("max_height", Infinity),
      aspect        |-> IF p.aspect # Null THEN p.aspect ELSE old("aspect", Null),
      margin        |-> IF p.margin # Null THEN p.margin
                        ELSE old("margin", Margin(Zero, Zero, Zero, Zero)) ]

\* set_sizing(sizing): the value assigned to this._sizing
set_sizing(p) ==
    [ width_policy  |-> IF p.width_policy # Undefined THEN p.width_policy ELSE "fit",
      min_width     |-> IF p.min_width # Null THEN p.min_width ELSE Zero,
      width         |-> p.width,
      max_width     |-> IF p.max_width # Null THEN p.max_width ELSE Infinity,
      height_policy |-> IF p.height_policy # Undefined THEN p.height_policy ELSE "fit",
      min_height    |-> IF p.min_height # Null THEN p.min_height ELSE Zero,
      height        |-> p.height,
      max_height    |-> IF p.max_height # Null THEN p.max_height ELSE Infinity,
      aspect        |-> p.aspect,
      margin        |-> IF p.margin # Null THEN p.margin ELSE Margin(Zero, Zero, Zero, Zero) ]

\* a faulty _set_geometry: stores the inner box
SetGeometryHook_StoresInner(outer, inner) == inner

\* _set_geometry(outer, _inner): the value assigned to this._bbox
SetGeometryHook(outer, inner) == outer

\* set_geometry(outer, inner?)
set_geometry(outer, inner) == SetGeometryHook(outer, IF inner # Null THEN inner ELSE outer)

is_width_expanding == IF sizing = Null THEN TypeError ELSE sizing.width_policy = "max"

is_height_expanding == IF sizing = Null THEN TypeError ELSE sizing.height_policy = "max"

\* a faulty clip_width: the clamp is composed the other way round
clip_width_MinOfMax(width) ==
    IF sizing = Null THEN TypeError
    ELSE min(sizing.max_width, max(width, sizing.min_width))

\* clip_width(width)
clip_width(width) ==
    IF sizing = Null THEN TypeError
    ELSE max(sizing.min_width, min(width, sizing.max_width))

\* clip_height(height)
clip_height(height) ==
    IF sizing = Null THEN TypeError
    ELSE max(sizing.min_height, min(height, sizing.max_height))

\* clip_size({width, height})
clip_size(size) ==
    IF sizing = Null THEN TypeError
    ELSE Size(clip_width(size.width), clip_height(size.height))

\* a faulty selection: a tie goes to the height-preserving candidate
AspectBothFree_TieToHeight(viewport, width, height, aspect) ==
    LET w_height == Div(width, aspect)
        h_width == Mul(height, aspect)
        w_diff == Add(Abs(Sub(viewport.width, width)),
                      Abs(Sub(viewport.height, w_height)))
        h_diff == Add(Abs(Sub(viewport.width, h_width)),
                      Abs(Sub(viewport.height, height)))
    IN  IF Lt(w_diff, h_diff)
        THEN Size(width, w_height)
        ELSE Size(h_width, height)

\* the branch of apply_aspect taken when neither axis is fixed
AspectBothFree(viewport, width, height, aspect) ==
    LET w_width == width
        w_height == Div(width, aspect)
        h_width == Mul(height, aspect)
        h_height == height
        w_diff == Add(Abs(Sub(viewport.width, w_width)),
                      Abs(Sub(viewport.height, w_height)))
        h_diff == Add(Abs(Sub(viewport.width, h_width)),
                      Abs(Sub(viewport.height, h_height)))
    IN  IF Le(w_diff, h_diff)
        THEN Size(w_width, w_height)
        ELSE Size(h_width, h_height)

\* a faulty apply_aspect: with both axes fixed the size is returned as it is
apply_aspect_Silent(viewport, size) ==
    IF sizing = Null THEN TypeError
    ELSE IF sizing.aspect = Null THEN Size(size.width, size.height)
    ELSE IF sizing.width_policy # "fixed" /\ sizing.height_policy # "fixed"
    THEN AspectBothFree(viewport, size.width, size.height, sizing.aspect)
    ELSE IF sizing.width_policy # "fixed"
    THEN Size(size.width, Div(size.width, sizing.aspect))
    ELSE IF sizing.height_policy # "fixed"
    THEN Size(Mul(size.height, sizing.aspect), size.height)
    ELSE Size(size.width, size.height)

\* apply_aspect(viewport, {width, height})
apply_aspect(viewport, size) ==
    IF sizing = Null THEN TypeError
    ELSE
    LET aspect == sizing.aspect
        width == size.width
        height == size.height
    IN  IF aspect # Null
        THEN LET width_policy == sizing.width_policy
                 height_policy == sizing.height_policy
             IN  IF width_policy # "fixed" /\ height_policy # "fixed"
                 THEN AspectBothFree(viewport, width, height, aspect)
                 ELSE IF width_policy # "fixed"
                 THEN Size(width, Div(width, aspect))
                 ELSE IF height_policy # "fixed"
                 THEN Size(Mul(height, aspect), height)
                 ELSE Throw("unrechable")
        ELSE Size(width, height)

\* a faulty _measure: an unbounded side is returned as it is
MeasureHook_KeepsInfinity(viewport) ==
    [width |-> viewport.width, height |-> viewport.height, inner |-> Null]

\* LayoutItem._measure(viewport)
MeasureHook(viewport) ==
    [ width  |-> IF ~NumEq(viewport.width, Infinity) THEN viewport.width ELSE Zero,
      height |-> IF ~NumEq(viewport.height, Infinity) THEN viewport.height ELSE Zero,
      inner  |-> Null ]

\* a faulty measure: the viewport is not clipped before it is measured
measure_Unclipped(viewport) ==
    IF sizing = Null THEN TypeError
    ELSE
    LET clipped ==
            Size(IF sizing.width_policy = "fixed" /\ sizing.width # Null
                 THEN sizing.width ELSE viewport.width,
                 IF sizing.height_policy = "fixed" /\ sizing.height # Null
                 THEN sizing.height ELSE viewport.height)
        computed == MeasureHook(clipped)
        size == apply_aspect(clipped, Size(computed.width, computed.height))
    IN  IF IsThrow(size) THEN size
        ELSE [width |-> size.width, height |-> size.height, inner |-> computed.inner]

\* measure(viewport)
measure(viewport) ==
    IF sizing = Null THEN TypeError
    ELSE
    LET width_policy == sizing.width_policy
        height_policy == sizing.height_policy
        clipped0 == clip_size(viewport)
        clipped ==
            Size(IF width_policy = "fixed" /\ sizing.width # Null
                 THEN sizing.width ELSE clipped0.width,
                 IF height_policy = "fixed" /\ sizing.height # Null
                 THEN sizing.height ELSE clipped0.height)
        computed == MeasureHook(clipped)
        width ==
            IF width_policy = "fixed"
            THEN (IF sizing.width # Null THEN sizing.width ELSE computed.width)
            ELSE computed.width
        height ==
            IF height_policy = "fixed"
            THEN (IF sizing.height # Null THEN sizing.height ELSE computed.height)
            ELSE computed.height
        size == apply_aspect(clipped, Size(width, height))
    IN  IF IsThrow(size) THEN size
        ELSE [width |-> size.width, height |-> size.height, inner |-> computed.inner]

\* compute, from the size hint on: the box handed to set_geometry, or the error
\* measure threw
PlaceSizeHint(size_hint) ==
    IF IsThrow(size_hint) THEN size_hint
    ELSE set_geometry(BBox(Zero, Zero, size_hint.width, size_hint.height),
                      IF size_hint.inner # Null
                      THEN BBoxEdges(size_hint.inner.left, size_hint.inner.top,
                                     Sub(size_hint.width, size_hint.inner.right),
                                     Sub(size_hint.height, size_hint.inner.bottom))
                      ELSE Null)

\* a faulty compute: the viewport grows by the box it overwrites
compute_Accumulates(viewport) ==
    PlaceSizeHint(measure(Size(IF viewport # Null /\ viewport.width # Null
                               THEN Add(bbox.width, viewport.width) ELSE Infinity,
                               IF viewport # Null /\ viewport.height # Null
                               THEN Add(bbox.height, viewport.height) ELSE Infinity)))

\* compute(viewport?): the value assigned to this._bbox, or the error thrown
compute(viewport) ==
    PlaceSizeHint(measure(Size(IF viewport # Null /\ viewport.width # Null
                               THEN viewport.width ELSE Infinity,
                               IF viewport # Null /\ viewport.height # Null
                               THEN viewport.height ELSE Infinity)))

----------------------------------------------------------------------------
(* The calls, as actions.  `last` records the call and its outcome.        *)

\* the result of a call that returns nothing
Void == [void |-> TRUE]

Init ==
    /\ sizing = Null
    /\ bbox = ZeroBBox
    /\ last = [op |-> "new"]

SetSizing(p) ==
    /\ sizing' = set_sizing(p)
    /\ last' = [op |-> "set_sizing", arg |-> p, result |-> Void]
    /\ UNCHANGED bbox

SetGeometry(outer, inner) ==
    /\ bbox' = set_geometry(outer, inner)
    /\ last' = [op |-> "set_geometry", outer |-> outer, inner |-> inner, result |-> Void]
    /\ UNCHANGED sizing

\* the box after compute returned the box r or threw r
Committed(r) == IF IsThrow(r) THEN bbox ELSE r

\* what the caller of compute sees
Outcome(r) == IF IsThrow(r) THEN r ELSE Void

\* a faulty measure: commits the measured size as compute does
Measure_Commits(viewport) ==
    /\ last' = [op |-> "measure", viewport |-> viewport, result |-> measure(viewport)]
    /\ bbox' = Committed(compute(viewport))
    /\ UNCHANGED sizing

Measure(viewport) ==
    /\ last' = [op |-> "measure", viewport |-> viewport, result |-> measure(viewport)]
    /\ UNCHANGED <<sizing, bbox>>

Compute(viewport) ==
    /\ bbox' = Committed(compute(viewport))
    /\ last' = [op |-> "compute", viewport |-> viewport,
                result |-> Outcome(compute(viewport))]
    /\ UNCHANGED sizing

ApplyAspect(viewport, size) ==
    /\ last' = [op |-> "apply_aspect", viewport |-> viewport, size |-> size,
                result |-> apply_aspect(viewport, size)]
    /\ UNCHANGED <<sizing, bbox>>

ClipWidth(width) ==
    /\ last' = [op |-> "clip_width", arg |-> width, result |-> clip_width(width)]
    /\ UNCHANGED <<sizing, bbox>>

ClipHeight(height) ==
    /\ last' = [op |-> "clip_height", arg |-> height, result |-> clip_height(height)]
    /\ UNCHANGED <<sizing, bbox>>

ClipSize(size) ==
    /\ last' = [op |-> "clip_size", arg |-> size, result |-> clip_size(size)]
    /\ UNCHANGED <<sizing, bbox>>

----------------------------------------------------------------------------
(* Inputs.                                                                 *)

\* the Partial<BoxSizing> arguments built from the given field values
Partials(policies, mins, maxs, sizes, aspects, margins) ==
    [ width_policy : policies, min_width : mins, width : sizes, max_width : maxs,
      height_policy : policies, min_height : mins, height : sizes, max_height : maxs,
      aspect : aspects, margin : margins ]

\* set_sizing({})
NoSizing == CHOOSE p \in Partials({Undefined}, {Null}, {Null}, {Null}, {Null}, {Null}) : TRUE

Dims == {Num(i) : i \in 0..MaxDim}

AspectRatios == {Rat(1, 2), Num(1), Num(2)}

Sizes == {Size(w, h) : w \in Dims \cup {Infinity}, h \in Dims \cup {Infinity}}

\* the worked example of aspect reconciliation: viewport 100x100, measured 80x80
ExampleViewport == Size(Num(100), Num(100))

ExampleMeasured == Size(Num(80), Num(80))

\* the worked example of the reference leaf: compute({width: 120, height: 40})
ExampleLeafViewport == Size(Num(120), Num(40))

\* call sequences
ProtoPartials ==
    Partials({Undefined, "fixed"}, {Null}, {Null}, {Null, Num(ProtoDim + 1)},
             {Null, Num(2)}, {Null})

ProtoSizes ==
    {Size(w, h) : w \in {Num(ProtoDim), Infinity}, h \in {Num(ProtoDim), Infinity}}

\* compute's argument: absent, or a size with either side absent
ProtoPartialSizes ==
    {Null} \cup {Size(w, h) : w \in {Num(ProtoDim), Null}, h \in {Num(ProtoDim), Null}}
        \cup {ExampleLeafViewport}

\* candidate sizes handed to apply_aspect
ProtoMeasured == {Size(Num(ProtoDim), Num(ProtoDim + 1)), Size(Zero, Infinity)}

ProtoBoxes ==
    { BBox(Zero, Zero, Num(ProtoDim), Num(ProtoDim)),
      BBox(Num(ProtoDim), Num(ProtoDim + 1), Num(ProtoDim + 2), Num(ProtoDim + 3)) }

\* set_sizing alone: every field absent or present
SizingPartials ==
    Partials({Undefined, "fixed"}, {Null, Num(MaxDim)}, {Null, Zero},
             {Null, Num(MaxDim)}, {Null, Num(2)},
             {Null, Margin(Num(1), Num(1), Num(1), Num(1))})

\* measure: a floor, a ceiling, an explicit size above the ceiling, aspect
\* ratios; viewports from below the floor to above the ceiling
MeasurePartials ==
    Partials({Undefined, "fixed"}, {Null, Num(MaxDim)}, {Null, Num(MaxDim)},
             {Null, Num(MaxDim + 1)}, {Null} \cup AspectRatios, {Null})

MeasureDims == {Num(i) : i \in 0..(MaxDim + 1)} \cup {Infinity}

MeasureSizes == {Size(w, h) : w \in MeasureDims, h \in MeasureDims}

\* apply_aspect: viewports with an empty, a finite and an unbounded side
AspectViewports ==
    {Size(w, h) : w \in {Zero, Num(MaxDim), Infinity}, h \in {Zero, Num(MaxDim), Infinity}}
        \cup {ExampleViewport}

\* apply_aspect: policies and aspect ratios
AspectPartials ==
    Partials({Undefined, "fixed", "max"}, {Null}, {Null}, {Null},
             {Null} \cup AspectRatios, {Null})

\* clip: any min and max, ordered or not
ClipPartials ==
    Partials({Undefined}, {Null} \cup Dims, {Null} \cup Dims, {Null}, {Null}, {Null})

----------------------------------------------------------------------------
(* Spec: any sequence of set_sizing, measure, apply_aspect, compute and    *)
(* set_geometry calls on one LayoutItem.                                   *)

Next ==
    \/ \E p \in ProtoPartials : SetSizing(p)
    \/ \E v \in ProtoSizes : Measure(v)
    \/ \E v \in ProtoSizes, size \in ProtoMeasured : ApplyAspect(v, size)
    \/ \E v \in ProtoPartialSizes : Compute(v)
    \/ \E outer \in ProtoBoxes, inner \in {Null} \cup ProtoBoxes : SetGeometry(outer, inner)

Spec == Init /\ [][Next]_vars

(* SpecSizing: the element is configured again and again.                  *)

NextSizing == \E p \in SizingPartials : SetSizing(p)

SpecSizing == Init /\ [][NextSizing]_vars

(* SpecMeasure: the element is configured once, then measured.             *)

NextMeasure ==
    \/ sizing = Null /\ \E p \in MeasurePartials : SetSizing(p)
    \/ \E v \in MeasureSizes : Measure(v)

SpecMeasure == Init /\ [][NextMeasure]_vars

(* SpecAspect: the element is configured once, then apply_aspect is called. *)

NextAspect ==
    \/ sizing = Null /\ \E p \in AspectPartials : SetSizing(p)
    \/ \E v \in AspectViewports, size \in Sizes \cup {ExampleMeasured} :
           ApplyAspect(v, size)

SpecAspect == Init /\ [][NextAspect]_vars

(* SpecClip: the element is configured once, then the clip functions are    *)
(* called.                                                                  *)

NextClip ==
    \/ sizing = Null /\ \E p \in ClipPartials : SetSizing(p)
    \/ \E width \in Dims \cup {Infinity} : ClipWidth(width)
    \/ \E height \in Dims \cup {Infinity} : ClipHeight(height)
    \/ \E size \in Sizes : ClipSize(size)

SpecClip == Init /\ [][NextClip]_vars

----------------------------------------------------------------------------
(* Properties.                                                             *)

\* an aspect ratio is configured
HasAspect == sizing # Null /\ sizing.aspect # Null

\* an aspect ratio is configured and both axes are fixed
BothFixedWithAspect ==
    HasAspect /\ sizing.width_policy = "fixed" /\ sizing.height_policy = "fixed"

\* the viewport compute hands to measure: a missing side is unbounded
FullViewport(v) ==
    Size(IF v = Null \/ v.width = Null THEN Infinity ELSE v.width,
         IF v = Null \/ v.height = Null THEN Infinity ELSE v.height)

(* C1: with an aspect ratio configured and exactly one axis fixed with an  *)
(* explicit value, measure returns the fixed axis at its configured value  *)
(* and derives the free axis from it (height = width / aspect when width   *)
(* is fixed, width = height * aspect when height is fixed).                *)
C1_FixedAxisDrivesAspect ==
    (HasAspect /\ last.op = "measure") =>
        /\ (sizing.width_policy = "fixed" /\ sizing.width # Null
                /\ sizing.height_policy # "fixed") =>
            /\ ~IsThrow(last.result)
            /\ last.result.width = sizing.width
            /\ last.result.height = Div(sizing.width, sizing.aspect)
        /\ (sizing.height_policy = "fixed" /\ sizing.height # Null
                /\ sizing.width_policy # "fixed") =>
            /\ ~IsThrow(last.result)
            /\ last.result.height = sizing.height
            /\ last.result.width = Mul(sizing.height, sizing.aspect)

(* C2: with an aspect ratio configured and both axes fixed, measure and    *)
(* apply_aspect throw for every viewport and candidate size, and compute   *)
(* throws and leaves the bounding box as it was.                           *)
C2_BothFixedAborts ==
    [][ (BothFixedWithAspect /\ sizing' = sizing
            /\ last'.op \in {"measure", "apply_aspect", "compute"}) =>
        /\ last'.result = Throw("unrechable")
        /\ last'.op = "compute" => bbox' = bbox ]_vars

\* a compute aborted over a box placed earlier
C2_Witness ==
    /\ BothFixedWithAspect
    /\ last.op = "compute"
    /\ IsThrow(last.result)
    /\ bbox # ZeroBBox

(* C6: a measure call (successful or failing) and a set_sizing call leave  *)
(* the bounding box unchanged, measure leaves the sizing unchanged, and    *)
(* the bounding box changes only in a compute or set_geometry step.        *)
C6_MeasureIsPure ==
    [][ /\ last'.op \in {"measure", "set_sizing"} => bbox' = bbox
        /\ last'.op = "measure" => sizing' = sizing
        /\ bbox' # bbox => last'.op \in {"compute", "set_geometry"} ]_vars

\* a successful measure of an element placed earlier
C6_Witness ==
    /\ last.op = "measure"
    /\ ~IsThrow(last.result)
    /\ bbox # ZeroBBox
    /\ bbox # BBox(Zero, Zero, last.result.width, last.result.height)

(* C7: compute(v) called twice in a row, with no set_sizing in between,    *)
(* leaves the same bounding box after the second call as after the first.  *)
C7_ComputeIdempotent ==
    [][ (last.op = "compute" /\ last'.op = "compute"
            /\ last'.viewport = last.viewport /\ sizing' = sizing) =>
        bbox' = bbox ]_vars

\* a successful compute with an aspect ratio configured
C7_Witness ==
    /\ last.op = "compute"
    /\ ~IsThrow(last.result)
    /\ HasAspect
    /\ bbox.width # Zero

\* fit policies, min 0, max unbounded, no aspect ratio
DefaultSizing ==
    /\ sizing # Null
    /\ sizing.width_policy = "fit"
    /\ sizing.height_policy = "fit"
    /\ sizing.min_width = Zero
    /\ sizing.min_height = Zero
    /\ sizing.max_width = Infinity
    /\ sizing.max_height = Infinity
    /\ sizing.aspect = Null

\* a side of the viewport when it is finite, 0 when it is unbounded
LeafSide(x) == IF IsFinite(x) THEN x ELSE Zero

(* C9: for the LayoutItem with default sizing, measure(v) returns v's side *)
(* on each axis when it is finite and 0 when it is unbounded, with no      *)
(* inner margin, and compute(v) commits the box at left 0, top 0 with that *)
(* width and height, a missing side counting as unbounded.                 *)
C9_DefaultLeaf ==
    DefaultSizing =>
        /\ last.op = "measure" =>
            last.result = [ width |-> LeafSide(last.viewport.width),
                            height |-> LeafSide(last.viewport.height),
                            inner |-> Null ]
        /\ last.op = "compute" =>
            /\ last.result = Void
            /\ bbox = [ left |-> Zero, top |-> Zero,
                        width |-> LeafSide(FullViewport(last.viewport).width),
                        height |-> LeafSide(FullViewport(last.viewport).height) ]

\* compute({width: 120, height: 40}) with default sizing
C9_Witness ==
    /\ DefaultSizing
    /\ last.op = "compute"
    /\ last.viewport = ExampleLeafViewport
    /\ bbox = BBox(Zero, Zero, Num(120), Num(40))

(* C10: the bounding box is the zero box at the origin until the first     *)
(* successful compute or set_geometry; set_geometry(outer, inner) stores   *)
(* exactly outer, compute(v) stores the box at the origin with the width   *)
(* and height measure(v) returns, and no other step changes the box.       *)
C10_BoxIsLastPlacement ==
    /\ bbox = ZeroBBox
    /\ [][ IF last'.op = "set_geometry"
           THEN bbox' = last'.outer
           ELSE IF last'.op = "compute" /\ ~IsThrow(last'.result) /\ sizing' = sizing
           THEN bbox' = [ left |-> Zero, top |-> Zero,
                          width |-> measure(FullViewport(last'.viewport)).width,
                          height |-> measure(FullViewport(last'.viewport)).height ]
           ELSE bbox' = bbox ]_vars

\* set_geometry with a distinct inner box, over a configured element
C10_Witness ==
    /\ last.op = "set_geometry"
    /\ last.inner # Null
    /\ last.inner # last.outer
    /\ bbox = last.outer
    /\ sizing # Null

\* min <= max on each axis
ClampsOrdered ==
    /\ sizing # Null
    /\ Le(sizing.min_width, sizing.max_width)
    /\ Le(sizing.min_height, sizing.max_height)

\* the width lies within [min_width, max_width]
WidthHonored(width) == Le(sizing.min_width, width) /\ Le(width, sizing.max_width)

\* the height lies within [min_height, max_height]
HeightHonored(height) == Le(sizing.min_height, height) /\ Le(height, sizing.max_height)

\* the width is taken from the viewport, not from an explicit fixed size
WidthFree == ~(sizing.width_policy = "fixed" /\ sizing.width # Null)

HeightFree == ~(sizing.height_policy = "fixed" /\ sizing.height # Null)

(* C3, as stated: for the LayoutItem, for every sizing with min <= max on  *)
(* each axis and every viewport, the size measure returns and the box      *)
(* compute commits honor min_width <= width <= max_width and               *)
(* min_height <= height <= max_height.                                     *)
C3_ClampsHonored ==
    (ClampsOrdered /\ last.op = "measure" /\ ~IsThrow(last.result)) =>
        /\ WidthHonored(last.result.width)
        /\ HeightHonored(last.result.height)
        /\ WidthHonored(compute(last.viewport).width)
        /\ HeightHonored(compute(last.viewport).height)

(* C3, amended: for the LayoutItem with min <= max on each axis and no     *)
(* aspect ratio configured, on every axis whose size is not given          *)
(* explicitly under the fixed policy, the dimension measure returns and    *)
(* compute commits is at most max, and at least min whenever min is finite *)
(* and the viewport side or max is finite.                                 *)
C3_ClampsHonoredOnFreeAxes ==
    (ClampsOrdered /\ sizing.aspect = Null /\ last.op = "measure") =>
        /\ ~IsThrow(last.result)
        /\ ~IsThrow(compute(last.viewport))
        /\ \A width \in {last.result.width, compute(last.viewport).width} :
            WidthFree =>
                /\ Le(width, sizing.max_width)
                /\ (IsFinite(sizing.min_width)
                        /\ (IsFinite(last.viewport.width) \/ IsFinite(sizing.max_width))) =>
                    Le(sizing.min_width, width)
        /\ \A height \in {last.result.height, compute(last.viewport).height} :
            HeightFree =>
                /\ Le(height, sizing.max_height)
                /\ (IsFinite(sizing.min_height)
                        /\ (IsFinite(last.viewport.height) \/ IsFinite(sizing.max_height))) =>
                    Le(sizing.min_height, height)

\* a viewport narrower than min_width and taller than max_height is bent into range
C3_Witness ==
    /\ ClampsOrdered
    /\ sizing.aspect = Null
    /\ last.op = "measure"
    /\ WidthFree
    /\ HeightFree
    /\ Lt(last.viewport.width, sizing.min_width)
    /\ Lt(sizing.max_height, last.viewport.height)
    /\ last.result.width = sizing.min_width
    /\ last.result.height = sizing.max_height

\* the argument, the bounds and the result of the clip call on one axis
ClipCalls ==
    IF sizing = Null THEN {}
    ELSE IF last.op = "clip_width"
    THEN {<<sizing.min_width, sizing.max_width, last.arg, last.result>>}
    ELSE IF last.op = "clip_height"
    THEN {<<sizing.min_height, sizing.max_height, last.arg, last.result>>}
    ELSE IF last.op = "clip_size"
    THEN { <<sizing.min_width, sizing.max_width, last.arg.width, last.result.width>>,
           <<sizing.min_height, sizing.max_height, last.arg.height, last.result.height>> }
    ELSE {}

(* C4, as stated: for every configured min/max and every value, clip       *)
(* returns value if min <= value <= max, min if value < min, and max if    *)
(* value > max.                                                            *)
C4_ClipIsClamp ==
    \A c \in ClipCalls :
        LET lo == c[1]
            hi == c[2]
            value == c[3]
            result == c[4]
        IN  /\ (Le(lo, value) /\ Le(value, hi)) => result = value
            /\ Lt(value, lo) => result = lo
            /\ Lt(hi, value) => result = hi

(* C4, amended: clip returns value if min <= value <= max, min if          *)
(* value < min, and, if value > max, max when min <= max and min when      *)
(* min > max.                                                              *)
C4_ClipIsClampMinWins ==
    \A c \in ClipCalls :
        LET lo == c[1]
            hi == c[2]
            value == c[3]
            result == c[4]
        IN  /\ (Le(lo, value) /\ Le(value, hi)) => result = value
            /\ Lt(value, lo) => result = lo
            /\ Lt(hi, value) => result = IF Le(lo, hi) THEN hi ELSE lo

\* clip_width of a value above max_width, with min_width > max_width
C4_Witness ==
    /\ sizing # Null
    /\ last.op = "clip_width"
    /\ Lt(sizing.max_width, sizing.min_width)
    /\ Lt(sizing.max_width, last.arg)
    /\ last.result = sizing.min_width

\* the L1 distance of a candidate size to the viewport
L1Distance(viewport, size) ==
    Add(Abs(Sub(viewport.width, size.width)), Abs(Sub(viewport.height, size.height)))

\* candidate A: keep the measured width
MatchWidth(size, r) == Size(size.width, Div(size.width, r))

\* candidate B: keep the measured height
MatchHeight(size, r) == Size(Mul(size.height, r), size.height)

(* C5: with an aspect ratio r configured and neither axis fixed,           *)
(* apply_aspect returns whichever of candidate A = {width, width / r} and  *)
(* candidate B = {height * r, height} has the smaller L1 distance to the   *)
(* viewport, and candidate A on a tie; with no aspect ratio configured it  *)
(* returns the measured size unchanged.  (The distances are compared where *)
(* both are defined: not Infinity - Infinity.)                             *)
C5_AspectSelection ==
    (sizing # Null /\ last.op = "apply_aspect") =>
        /\ sizing.aspect = Null => last.result = last.size
        /\ (sizing.aspect # Null /\ sizing.width_policy # "fixed"
                /\ sizing.height_policy # "fixed") =>
            LET A == MatchWidth(last.size, sizing.aspect)
                B == MatchHeight(last.size, sizing.aspect)
                dA == L1Distance(last.viewport, A)
                dB == L1Distance(last.viewport, B)
            IN  (~IsNaN(dA) /\ ~IsNaN(dB)) =>
                    last.result = IF Lt(dB, dA) THEN B ELSE A

\* the worked example: r = 2, viewport 100x100, measured 80x80, a tie, {80, 40}
C5_Witness ==
    /\ sizing # Null
    /\ sizing.aspect = Num(2)
    /\ sizing.width_policy # "fixed"
    /\ sizing.height_policy # "fixed"
    /\ last.op = "apply_aspect"
    /\ last.viewport = ExampleViewport
    /\ last.size = ExampleMeasured
    /\ L1Distance(ExampleViewport, Size(Num(80), Num(40)))
           = L1Distance(ExampleViewport, Size(Num(160), Num(80)))
    /\ last.result = Size(Num(80), Num(40))

(* C8: after set_sizing(p) the sizing is p completed with the defaults     *)
(* (policies fit, min 0, max unbounded, margin all-zero, width, height and *)
(* aspect absent), whatever was configured before.                         *)
C8_SizingReplaced ==
    last.op = "set_sizing" =>
        LET p == last.arg
        IN  /\ sizing.width_policy = (IF p.width_policy = Undefined THEN "fit" ELSE p.width_policy)
            /\ sizing.height_policy = (IF p.height_policy = Undefined THEN "fit" ELSE p.height_policy)
            /\ sizing.min_width = (IF p.min_width = Null THEN Num(0) ELSE p.min_width)
            /\ sizing.min_height = (IF p.min_height = Null THEN Num(0) ELSE p.min_height)
            /\ sizing.max_width = (IF p.max_width = Null THEN Infinity ELSE p.max_width)
            /\ sizing.max_height = (IF p.max_height = Null THEN Infinity ELSE p.max_height)
            /\ sizing.width = p.width
            /\ sizing.height = p.height
            /\ sizing.aspect = p.aspect
            /\ sizing.margin = (IF p.margin = Null
                                THEN [left |-> Num(0), top |-> Num(0),
                                      right |-> Num(0), bottom |-> Num(0)]
                                ELSE p.margin)
            /\ DOMAIN sizing = DOMAIN p

\* set_sizing({max_width: 0}): the zero ceiling is kept, everything else is default
C8_Witness ==
    /\ last.op = "set_sizing"
    /\ last.arg = [NoSizing EXCEPT !.max_width = Zero]
    /\ sizing.max_width = Zero
    /\ sizing.max_height = Infinity
    /\ sizing.aspect = Null
    /\ sizing.width_policy = "fit"

============================================================================
